---- MODULE Spec2Model ----
(***************************************************************************)
(* Model of src/main.py: Record, Calculator, CaloriesCalculator and        *)
(* CashCalculator.  One calculator object of class cls is driven by a      *)
(* caller that constructs Records, adds them and runs the queries, while   *)
(* the system calendar (dt.datetime.now().date()) advances on its own.     *)
(*                                                                         *)
(* Dates are datetime.date values: records [year, month, day].  Date       *)
(* texts are sequences of one-character strings.  A money value is a       *)
(* fraction num/den; an amount printed with two decimals is kept as an     *)
(* integer number of hundredths.                                           *)
(***************************************************************************)
EXTENDS Integers, Sequences, FiniteSets, TLC

VARIABLES cls, limit, records, today, ticks, rec, ctor, pc, i, today_stats,
          caller, args, ret, callDate, added, limit0

vars == <<cls, limit, records, today, ticks, rec, ctor, pc, i, today_stats,
          caller, args, ret, callDate, added, limit0>>

objVars == <<cls, limit, records, added, limit0>>
clockVars == <<today, ticks>>
ctorVars == <<rec, ctor>>
callVars == <<pc, i, today_stats, caller, args, ret, callDate>>

(***************************************************************************)
(* Bounds and input sets.                                                  *)
(***************************************************************************)
MaxRecords == 2
MaxTicks == 2

Classes == {"Calculator", "CaloriesCalculator", "CashCalculator"}
Limits == {2}
Amounts == {1, 2}
Comments == {"coffee"}
StartDay == [year |-> 2023, month |-> 12, day |-> 31]

T(a, b, c, d, e, f, g, h, k, l) == <<a, b, c, d, e, f, g, h, k, l>>

DateTexts ==
    { <<>>,
      T("2","4",".","1","2",".","2","0","2","3"),
      T("2","5",".","1","2",".","2","0","2","3"),
      T("0","1",".","0","1",".","2","0","2","4"),
      <<"1",".","1",".","2","0","2","4">>,
      <<" ","1",".","1",".","2","0","2","4">>,
      T("2","9",".","0","2",".","2","0","2","3"),
      T("0","1",".","1","3",".","2","0","2","4"),
      T("2","0","2","4","-","0","1","-","0","1"),
      <<"0","1",".","0","1",".","2","4">>,
      <<"0","1",".","0","1",".","2","0","2","4"," ">> }

(***************************************************************************)
(* datetime.date arithmetic (proleptic Gregorian calendar).                *)
(***************************************************************************)
IsLeap(y) == y % 4 = 0 /\ (y % 100 # 0 \/ y % 400 = 0)

DaysInMonth(y, m) ==
    IF m = 2 THEN (IF IsLeap(y) THEN 29 ELSE 28)
    ELSE IF m \in {4, 6, 9, 11} THEN 30 ELSE 31

RECURSIVE DaysBeforeMonth(_, _)
DaysBeforeMonth(y, m) ==
    IF m <= 1 THEN 0 ELSE DaysBeforeMonth(y, m - 1) + DaysInMonth(y, m - 1)

DaysBeforeYear(y) ==
    (y - 1) * 365 + ((y - 1) \div 4) - ((y - 1) \div 100) + ((y - 1) \div 400)

ToOrdinal(d) == DaysBeforeYear(d.year) + DaysBeforeMonth(d.year, d.month) + d.day

\* (a - b).days
DaysBetween(a, b) == ToOrdinal(a) - ToOrdinal(b)

\* the calendar date that follows d: what now().date() yields after midnight
NextDay(d) ==
    IF d.day < DaysInMonth(d.year, d.month)
    THEN [d EXCEPT !.day = d.day + 1]
    ELSE IF d.month < 12
         THEN [year |-> d.year, month |-> d.month + 1, day |-> 1]
         ELSE [year |-> d.year + 1, month |-> 1, day |-> 1]

(***************************************************************************)
(* dt.datetime.strptime(text, '%d.%m.%Y').date()                           *)
(***************************************************************************)
Digits == {"0", "1", "2", "3", "4", "5", "6", "7", "8", "9"}

DigitVal(c) ==
    CASE c = "0" -> 0 [] c = "1" -> 1 [] c = "2" -> 2 [] c = "3" -> 3
      [] c = "4" -> 4 [] c = "5" -> 5 [] c = "6" -> 6 [] c = "7" -> 7
      [] c = "8" -> 8 [] c = "9" -> 9

RECURSIVE Number(_)
Number(s) ==
    IF s = <<>> THEN 0
    ELSE 10 * Number(SubSeq(s, 1, Len(s) - 1)) + DigitVal(s[Len(s)])

AllDigits(s) == \A k \in 1..Len(s) : s[k] \in Digits

\* %d : 3[0-1] | [1-2]\d | 0[1-9] | [1-9] | " "[1-9]
MatchDay(s) ==
    \/ Len(s) = 2 /\ AllDigits(s) /\ Number(s) \in 1..31
    \/ Len(s) = 1 /\ AllDigits(s) /\ Number(s) \in 1..9
    \/ Len(s) = 2 /\ s[1] = " " /\ s[2] \in Digits /\ DigitVal(s[2]) \in 1..9

DayValue(s) == IF s[1] = " " THEN DigitVal(s[2]) ELSE Number(s)

\* %m : 1[0-2] | 0[1-9] | [1-9]
MatchMonth(s) ==
    \/ Len(s) = 2 /\ AllDigits(s) /\ Number(s) \in 1..12
    \/ Len(s) = 1 /\ AllDigits(s) /\ Number(s) \in 1..9

\* %Y : \d\d\d\d
MatchYear(s) == Len(s) = 4 /\ AllDigits(s)

NoDate == [year |-> 0, month |-> 0, day |-> 0]

Strptime(text) ==
    LET dots == {k \in 1..Len(text) : text[k] = "."}
    IN  IF Cardinality(dots) # 2
        THEN [ok |-> FALSE, date |-> NoDate]
        ELSE LET p1 == CHOOSE k \in dots : \A j \in dots : k <= j
                 p2 == CHOOSE k \in dots : \A j \in dots : k >= j
                 ds == SubSeq(text, 1, p1 - 1)
                 ms == SubSeq(text, p1 + 1, p2 - 1)
                 ys == SubSeq(text, p2 + 1, Len(text))
             IN  IF MatchDay(ds) /\ MatchMonth(ms) /\ MatchYear(ys)
                 THEN LET y == Number(ys)
                          m == Number(ms)
                          d == DayValue(ds)
                      IN  IF y >= 1 /\ d <= DaysInMonth(y, m)
                          THEN [ok |-> TRUE,
                                date |-> [year |-> y, month |-> m, day |-> d]]
                          ELSE [ok |-> FALSE, date |-> NoDate]
                 ELSE [ok |-> FALSE, date |-> NoDate]

\* Strptime on the date texts of the model
Parsed == [t \in DateTexts |-> Strptime(t)]

(***************************************************************************)
(* Record                                                                  *)
(***************************************************************************)
NoRecord == [amount |-> 0, comment |-> "", date |-> NoDate]

NoCtor == [called |-> FALSE, text |-> <<>>, at |-> NoDate, raised |-> FALSE,
           had |-> <<>>]

NoArgs == [currency |-> "", usd |-> 0, euro |-> 0]

NoRet == [op |-> "none", kind |-> "none", val |-> 0, label |-> ""]

\* the caller holds no freshly constructed Record
NoPendingRecord == rec' = NoRecord /\ ctor' = NoCtor

\* the caller holds no result of an earlier query
NoPendingCall ==
    /\ pc' = "idle"
    /\ i' = 0
    /\ today_stats' = 0
    /\ caller' = "none"
    /\ args' = NoArgs
    /\ ret' = NoRet
    /\ callDate' = NoDate

\* variant: the text is read with the format '%m.%d.%Y'
RecordDateMonthFirst(text, now) ==
    IF text = <<>> THEN [ok |-> TRUE, date |-> now]
    ELSE LET r == Parsed[text]
         IN  [ok |-> r.ok,
              date |-> [year |-> r.date.year, month |-> r.date.day,
                        day |-> r.date.month]]

\* Record.__init__: the date is resolved once, at construction
RecordDate(text, now) ==
    IF text = <<>> THEN [ok |-> TRUE, date |-> now] ELSE Parsed[text]

NewRecord(amount, comment, text) ==
    /\ pc = "idle"
    /\ LET r == RecordDate(text, today)
       IN  /\ rec' = IF r.ok
                     THEN [amount |-> amount, comment |-> comment, date |-> r.date]
                     ELSE NoRecord
           /\ ctor' = [called |-> TRUE, text |-> text, at |-> today,
                       raised |-> ~r.ok, had |-> records]
    /\ NoPendingCall
    /\ UNCHANGED <<objVars, clockVars>>

(***************************************************************************)
(* Calculator                                                              *)
(***************************************************************************)
Init ==
    /\ cls \in Classes
    /\ limit \in Limits
    /\ records = <<>>
    /\ today = StartDay
    /\ ticks = 0
    /\ rec = NoRecord
    /\ ctor = NoCtor
    /\ pc = "idle"
    /\ i = 0
    /\ today_stats = 0
    /\ caller = "none"
    /\ args = NoArgs
    /\ ret = NoRet
    /\ callDate = NoDate
    /\ added = <<>>
    /\ limit0 = limit

\* midnight passes: now().date() moves to the next calendar date
Tick ==
    /\ ticks < MaxTicks
    /\ today' = NextDay(today)
    /\ ticks' = ticks + 1
    /\ UNCHANGED <<objVars, ctorVars, callVars>>

\* variant: the record is inserted at the front
Prepended(rs, r) == <<r>> \o rs

\* self.records.append(record)
Appended(rs, r) == Append(rs, r)

add_record ==
    /\ pc = "idle"
    /\ rec # NoRecord
    /\ Len(records) < MaxRecords
    /\ records' = Appended(records, rec)
    /\ added' = Append(added, rec)
    /\ NoPendingRecord
    /\ UNCHANGED <<cls, limit, limit0, clockVars, callVars>>

\* entry of get_today_stats: today_stats = 0, start of the for loop
EnterTodayStats(who, a) ==
    /\ pc = "idle"
    /\ pc' = "today_loop"
    /\ caller' = who
    /\ args' = a
    /\ i' = 1
    /\ today_stats' = 0
    /\ callDate' = today
    /\ ret' = NoRet
    /\ NoPendingRecord
    /\ UNCHANGED <<objVars, clockVars>>

\* the date one loop iteration compares the record against, when the call
\* began on date start and the calendar now shows date now
LoopDate(start, now) == now

\* one iteration of the loop of get_today_stats
TodayStatsStep ==
    /\ pc = "today_loop"
    /\ i <= Len(records)
    /\ today_stats' = IF records[i].date = LoopDate(callDate, today)
                      THEN today_stats + records[i].amount
                      ELSE today_stats
    /\ i' = i + 1
    /\ UNCHANGED <<objVars, clockVars, ctorVars, pc, caller, args, ret, callDate>>

get_today_stats == EnterTodayStats("top", NoArgs)

\* the loop is over: control is back in the caller of get_today_stats
LoopDone(who) ==
    /\ pc = "today_loop"
    /\ i > Len(records)
    /\ caller = who
    /\ pc' = "idle"
    /\ i' = 0

ReturnTodayStats ==
    /\ LoopDone("top")
    /\ ret' = [op |-> "today", kind |-> "num", val |-> today_stats, label |-> ""]
    /\ UNCHANGED <<objVars, clockVars, ctorVars, today_stats, caller, args, callDate>>

\* variant: the window is one day too long
InWeekInclusive7(now, d) == DaysBetween(now, d) <= 7 /\ DaysBetween(now, d) >= 0

InWeek(now, d) == DaysBetween(now, d) < 7 /\ DaysBetween(now, d) >= 0

RECURSIVE WeekStats(_, _)
WeekStats(rs, now) ==
    IF rs = <<>> THEN 0
    ELSE WeekStats(SubSeq(rs, 1, Len(rs) - 1), now)
         + (IF InWeek(now, rs[Len(rs)].date) THEN rs[Len(rs)].amount ELSE 0)

\* what the get_week_stats of class c returns
WeekResult(c, rs, now) ==
    IF c = "CashCalculator"
    THEN [op |-> "week", kind |-> "None", val |-> 0, label |-> ""]
    ELSE [op |-> "week", kind |-> "num", val |-> WeekStats(rs, now), label |-> ""]

get_week_stats ==
    /\ pc = "idle"
    /\ ret' = WeekResult(cls, records, today)
    /\ callDate' = today
    /\ caller' = "top"
    /\ args' = NoArgs
    /\ today_stats' = 0
    /\ NoPendingRecord
    /\ UNCHANGED <<objVars, clockVars, pc, i>>

(***************************************************************************)
(* CaloriesCalculator                                                      *)
(***************************************************************************)
\* variant: a zero balance still allows eating
CaloriesMessageZeroEat(x) ==
    IF x >= 0
    THEN [op |-> "calories", kind |-> "eat", val |-> x, label |-> "kCal"]
    ELSE [op |-> "calories", kind |-> "stop", val |-> 0, label |-> ""]

CaloriesMessage(x) ==
    IF x > 0
    THEN [op |-> "calories", kind |-> "eat", val |-> x, label |-> "kCal"]
    ELSE [op |-> "calories", kind |-> "stop", val |-> 0, label |-> ""]

get_calories_remained ==
    /\ cls = "CaloriesCalculator"
    /\ EnterTodayStats("calories", NoArgs)

ReturnCalories ==
    /\ LoopDone("calories")
    /\ ret' = CaloriesMessage(limit - today_stats)
    /\ UNCHANGED <<objVars, clockVars, ctorVars, today_stats, caller, args, callDate>>

(***************************************************************************)
(* CashCalculator                                                          *)
(***************************************************************************)
\* the label of line 170 (Cyrillic "rub"), spelled in ASCII
LabelRub == "RUB(cyr)"

USD_RATE == 60
EURO_RATE == 70

\* <<currency, usd rate, euro rate>> of the calls of get_today_cash_remained:
\* the default rates and rates the caller overrides (rates are positive)
CashCalls ==
    {<<"usd", USD_RATE, EURO_RATE>>, <<"usd", 8, EURO_RATE>>,
     <<"eur", USD_RATE, EURO_RATE>>, <<"eur", USD_RATE, 8>>,
     <<"rub", 8, 8>>, <<"USD", USD_RATE, EURO_RATE>>}

\* round(num/den, 2) and '{:.2f}'.format(num/den) for num/den >= 0, as a
\* number of hundredths: nearest, ties to even.  Exact for the rates of
\* CashCalls: a quotient by 60 or 70 is never halfway between two hundredths
\* and a quotient by 8 is a binary fraction the float holds exactly.
Round2(num, den) ==
    LET q == (100 * num) \div den
        r == (100 * num) % den
    IN  IF 2 * r < den THEN q
        ELSE IF 2 * r > den THEN q + 1
        ELSE IF q % 2 = 0 THEN q ELSE q + 1

\* variant: the 'rub' branch assigns 1.00 instead of comparing with it
ConvertRubAssigns(num, currency, usd, euro) ==
    IF currency = "usd" THEN [num |-> num, den |-> usd, label |-> "USD"]
    ELSE IF currency = "eur" THEN [num |-> num, den |-> euro, label |-> "Euro"]
    ELSE IF currency = "rub" THEN [num |-> 1, den |-> 1, label |-> LabelRub]
    ELSE [num |-> num, den |-> 1, label |-> currency]

\* variant: the currency code is matched without regard to case
ConvertAnyCase(num, currency, usd, euro) ==
    IF currency \in {"usd", "USD"} THEN [num |-> num, den |-> usd, label |-> "USD"]
    ELSE IF currency \in {"eur", "EUR"} THEN [num |-> num, den |-> euro, label |-> "Euro"]
    ELSE IF currency \in {"rub", "RUB"} THEN [num |-> num, den |-> 1, label |-> LabelRub]
    ELSE [num |-> num, den |-> 1, label |-> currency]

\* the if/elif chain on the currency, applied to cash_remained = num:
\* the converted cash_remained num/den and the label
Convert(num, currency, usd, euro) ==
    IF currency = "usd" THEN [num |-> num, den |-> usd, label |-> "USD"]
    ELSE IF currency = "eur" THEN [num |-> num, den |-> euro, label |-> "Euro"]
    ELSE IF currency = "rub" THEN [num |-> num, den |-> 1, label |-> LabelRub]
    ELSE [num |-> num, den |-> 1, label |-> currency]

\* variant: a zero balance falls into the first branch
CashMessageZeroLeft(num, den, label) ==
    IF num >= 0
    THEN [op |-> "cash", kind |-> "left", val |-> Round2(num, den), label |-> label]
    ELSE [op |-> "cash", kind |-> "debt", val |-> Round2(-num, den), label |-> label]

\* the message chosen by the sign of cash_remained = num/den (den > 0)
CashMessage(num, den, label) ==
    IF num > 0
    THEN [op |-> "cash", kind |-> "left", val |-> Round2(num, den), label |-> label]
    ELSE IF num = 0
    THEN [op |-> "cash", kind |-> "nomoney", val |-> 0, label |-> ""]
    ELSE [op |-> "cash", kind |-> "debt", val |-> Round2(-num, den), label |-> label]

get_today_cash_remained(currency, usd, euro) ==
    /\ cls = "CashCalculator"
    /\ EnterTodayStats("cash", [currency |-> currency, usd |-> usd, euro |-> euro])

ReturnCash ==
    /\ LoopDone("cash")
    /\ LET c == Convert(limit - today_stats, args.currency, args.usd, args.euro)
       IN  ret' = CashMessage(c.num, c.den, c.label)
    /\ UNCHANGED <<objVars, clockVars, ctorVars, today_stats, caller, args, callDate>>

Next ==
    \/ \E a \in Amounts, c \in Comments, t \in DateTexts : NewRecord(a, c, t)
    \/ add_record
    \/ Tick
    \/ get_today_stats
    \/ TodayStatsStep
    \/ ReturnTodayStats
    \/ get_week_stats
    \/ get_calories_remained
    \/ ReturnCalories
    \/ \E c \in CashCalls : get_today_cash_remained(c[1], c[2], c[3])
    \/ ReturnCash

Spec == Init /\ [][Next]_vars

(***************************************************************************)
(* Properties.  The operators below restate the expected results           *)
(* independently of the operators that model the code.                     *)
(***************************************************************************)
RECURSIVE SumIdx(_, _)
SumIdx(rs, S) ==
    IF S = {} THEN 0
    ELSE LET k == CHOOSE x \in S : TRUE
         IN  rs[k].amount + SumIdx(rs, S \ {k})

\* sum of amount over the records dated d
SumOn(rs, d) == SumIdx(rs, {k \in 1..Len(rs) : rs[k].date = d})

MonthLengths == <<31, 28, 31, 30, 31, 30, 31, 31, 30, 31, 30, 31>>

MonthLength(y, m) ==
    IF m = 2 /\ (y % 400 = 0 \/ (y % 4 = 0 /\ y % 100 # 0)) THEN 29
    ELSE MonthLengths[m]

PrevDay(d) ==
    IF d.day > 1 THEN [d EXCEPT !.day = d.day - 1]
    ELSE IF d.month > 1
         THEN [year |-> d.year, month |-> d.month - 1,
               day |-> MonthLength(d.year, d.month - 1)]
         ELSE [year |-> d.year - 1, month |-> 12, day |-> 31]

\* the calendar date n days before d
RECURSIVE DaysAgo(_, _)
DaysAgo(d, n) == IF n = 0 THEN d ELSE DaysAgo(PrevDay(d), n - 1)

\* the dates the calendar showed from date d on, over at most MaxTicks nights
RECURSIVE DaysFrom(_, _)
DaysFrom(d, n) == IF n = 0 THEN {d} ELSE {d} \cup DaysFrom(NextDay(d), n - 1)

Abs(x) == IF x < 0 THEN -x ELSE x

\* h hundredths is a nearest two-decimal value of num/den
Nearest(h, num, den) == 2 * Abs(h * den - 100 * num) <= den

\* C1: get_today_stats() returns the sum of amount over the records whose
\* date equals the current date at the time of the call (0 when none matches).
C1_TodayStatsAtCallDate ==
    ret.op = "today" => ret.kind = "num" /\ ret.val = SumOn(records, callDate)

\* C10: the value one get_today_stats() call returns is the sum of amounts for
\* one single calendar date, also when midnight passes during the scan.
C10_TodayStatsSingleDate ==
    ret.op = "today" =>
        \E d \in DaysFrom(callDate, MaxTicks) : ret.val = SumOn(records, d)

\* C2: Calculator.get_week_stats() returns the sum of amount over exactly the
\* records dated 0..6 days before the current date (6 days back included,
\* 7 days back and every later date excluded).
C2_WeekStatsWindow ==
    (ret.op = "week" /\ cls # "CashCalculator") =>
        /\ ret.kind = "num"
        /\ ret.val = SumIdx(records,
                            {k \in 1..Len(records) :
                                \E n \in 0..6 : records[k].date = DaysAgo(callDate, n)})

C2_Witness ==
    /\ ret.op = "week"
    /\ cls = "Calculator"
    /\ Len(records) = 2
    /\ records[1].date = DaysAgo(callDate, 6)
    /\ records[2].date = DaysAgo(callDate, 7)
    /\ ret.val = records[1].amount

\* C3: get_week_stats() of a CashCalculator returns the number that
\* Calculator.get_week_stats() returns for the same records and date.
C3_CashWeekStatsIsBase ==
    (ret.op = "week" /\ cls = "CashCalculator") =>
        ret = WeekResult("Calculator", records, callDate)
\* the cash_remained of the call that returned ret, before any conversion
Remaining == limit - today_stats

\* the message for a balance of num/den labelled label, with the amount
\* given to two decimals
IsCashMessage(m, num, den, label) ==
    /\ m.op = "cash"
    /\ num > 0 => m.kind = "left" /\ m.label = label /\ Nearest(m.val, num, den)
    /\ num = 0 => m.kind = "nomoney" /\ m.label = "" /\ m.val = 0
    /\ num < 0 => m.kind = "debt" /\ m.label = label /\ Nearest(m.val, -num, den)

C6_UnknownCurrencyFallsThrough ==
    (ret.op = "cash" /\ args.currency \notin {"usd", "eur", "rub"}) =>
        /\ IsCashMessage(ret, Remaining, 1, args.currency)
        /\ ret.val = 100 * Abs(Remaining)

C6_Witness ==
    /\ args.currency = "USD"
    /\ Remaining = -1
    /\ ret = [op |-> "cash", kind |-> "debt", val |-> 100, label |-> "USD"]

\* C7: get_calories_remained() returns the 'may still eat' message with
\* limit - get_today_stats() exactly when that value is > 0, and the fixed
\* 'stop eating' message when it is zero or negative.
C7_CaloriesMessage ==
    ret.op = "calories" =>
        /\ Remaining > 0 => ret.kind = "eat" /\ ret.val = Remaining
        /\ Remaining <= 0 => ret.kind = "stop" /\ ret.val = 0

C7_Witness ==
    /\ ret.op = "calories"
    /\ Remaining = 0
    /\ Len(records) > 0
    /\ ret.kind = "stop"

DigitChar(n) ==
    CASE n = 0 -> "0" [] n = 1 -> "1" [] n = 2 -> "2" [] n = 3 -> "3"
      [] n = 4 -> "4" [] n = 5 -> "5" [] n = 6 -> "6" [] n = 7 -> "7"
      [] n = 8 -> "8" [] n = 9 -> "9"

Pad2(n) == <<DigitChar(n \div 10), DigitChar(n % 10)>>

Pad4(n) == <<DigitChar(n \div 1000), DigitChar((n \div 100) % 10),
             DigitChar((n \div 10) % 10), DigitChar(n % 10)>>

\* the ways to write the date d as DD.MM.YYYY (a one-digit day or month may
\* drop its leading zero, a one-digit day may have a blank for it)
SpellingsOf(d) ==
    LET days == {Pad2(d.day)} \cup (IF d.day < 10
                                    THEN {<<DigitChar(d.day)>>, <<" ", DigitChar(d.day)>>}
                                    ELSE {})
        months == {Pad2(d.month)} \cup (IF d.month < 10
                                        THEN {<<DigitChar(d.month)>>}
                                        ELSE {})
    IN  {ds \o <<".">> \o ms \o <<".">> \o Pad4(d.year) : ds \in days, ms \in months}

\* the calendar dates of the years the date texts name
CalendarDates ==
    {d \in [year : 2023..2024, month : 1..12, day : 1..31] :
        d.day <= MonthLength(d.year, d.month)}

\* the pairs <<text, date>> in which text writes date
Spellings == UNION {{<<t, d>> : t \in SpellingsOf(d)} : d \in CalendarDates}

\* the texts that write some calendar date
ValidTexts == {p[1] : p \in Spellings}

\* C8: a Record's date is resolved once: the date a valid DD.MM.YYYY text
\* spells, the construction-time current date when the text is omitted (also
\* after the calendar advances); malformed text raises, yields no Record and
\* changes no records.
C8_RecordDateResolvedOnce ==
    ctor.called =>
        IF ctor.text = <<>>
        THEN ~ctor.raised /\ rec # NoRecord /\ rec.date = ctor.at
        ELSE IF ctor.text \in ValidTexts
             THEN ~ctor.raised /\ rec # NoRecord /\ <<ctor.text, rec.date>> \in Spellings
             ELSE ctor.raised /\ rec = NoRecord /\ records = ctor.had

C8_Witness ==
    /\ ctor.called
    /\ ctor.text = <<>>
    /\ rec.date = ctor.at
    /\ today # ctor.at
    /\ Len(records) = 1

\* C9: records is the sequence of added records in arrival order (duplicates
\* kept, nothing removed, reordered or modified) and limit is its construction
\* value, after any sequence of add_record and query calls.
C9_RecordsAppendOnly ==
    /\ records = added
    /\ limit = limit0

C9_Witness ==
    /\ Len(records) = 2
    /\ records[1] # records[2]
    /\ ret.op = "cash"
    /\ records = added
====
